---------------------------- MODULE Spec2Model ----------------------------
(***************************************************************************)
(* Project portal: the access-control guard and the project workflow       *)
(* handlers of the admin, student and mentor routers, over the three       *)
(* Mongoose collections (Project, Student, Mentor).                        *)
(*                                                                         *)
(* A handler is a sequence of store operations separated by awaits.  Each  *)
(* handler is written as a step function on (store, request): one step is  *)
(* one store operation together with the synchronous code that follows it. *)
(* Spec runs every handler to completion in one step (requests served one  *)
(* after the other); ConcSpec interleaves the steps of requests in flight. *)
(***************************************************************************)
EXTENDS Integers, Sequences, FiniteSets, TLC

\* ------------------------------------------------------------- bounds
NumProjects == 1
NumStudents == 2
NumMentors == 2
MaxAssigned == 2
MaxSubmissions == 2
MaxInflight == 2
MaxClock == 3
NumPasswords == 2

ProjectIds == 1..NumProjects
StudentIds == 1..NumStudents
MentorIds == 1..NumMentors

\* an id that names no document of a collection, as a request may carry
UnknownId == 90
\* the subject id of the admin token
AdminId == 99
\* absent reference (null) and absent property (undefined)
None == 0
Undefined == -1
\* expiresIn: '1h', in ticks of the clock (half an hour each)
TokenTtl == 2
\* ADMIN_EMAIL and ADMIN_PASSWORD
AdminEmail == 9
AdminPassword == 9
\* max of the limiter applied to all routes, and of loginLimiter
GlobalMax == 100
LoginMax == 5


\* ------------------------------------------------------------- sequences
RECURSIVE SeqCount(_, _)
SeqCount(seq, x) ==
    IF seq = <<>> THEN 0
    ELSE (IF Head(seq) = x THEN 1 ELSE 0) + SeqCount(Tail(seq), x)

\* Array.prototype.includes on a Mongoose array of ids
Includes(seq, x) == \E i \in 1..Len(seq) : seq[i] = x

\* a filter that removes nothing
FilterOutNothing(seq, x) == seq

\* Array.prototype.filter(id => id !== x)
RECURSIVE FilterOut(_, _)
FilterOut(seq, x) ==
    IF seq = <<>> THEN <<>>
    ELSE IF Head(seq) = x THEN FilterOut(Tail(seq), x)
    ELSE <<Head(seq)>> \o FilterOut(Tail(seq), x)

\* the ids of a set in ascending order
RECURSIVE SetToSeq(_)
SetToSeq(S) ==
    IF S = {} THEN <<>>
    ELSE LET x == CHOOSE y \in S : \A z \in S : y <= z
         IN <<x>> \o SetToSeq(S \ {x})

\* ------------------------------------------------------------- the store
VARIABLES db, last, before, inflight, limits

vars == <<db, last, before, inflight, limits>>

\* the rate limiters' store for one caller within the current window: hits
\* is the count of the limiter applied to all routes, loginHits the count of
\* loginLimiter; passed counts the requests of the window that the first
\* limiter let through and handled, per login route, those that reached the
\* route's handler
NoLimits ==
    [hits |-> 0, loginHits |-> 0, passed |-> 0,
     handled |-> [op \in {"adminLogin", "studentLogin", "mentorLogin", "mentorLoginV3"} |-> 0]]

\* projectSchema: mentor, studentsApplied, status, submissions
ProjectDoc(status, mentor, applied, subs) ==
    [found |-> TRUE, status |-> status, mentor |-> mentor,
     studentsApplied |-> applied, submissions |-> subs]

NoProject == [found |-> FALSE, status |-> "Pending", mentor |-> None,
              studentsApplied |-> <<>>, submissions |-> <<>>]

\* studentSchema: rollNo, email, password, appliedProjects
StudentDoc(rollNo, email, password, applied) ==
    [found |-> TRUE, rollNo |-> rollNo, email |-> email, password |-> password,
     appliedProjects |-> applied]

NoStudent == [found |-> FALSE, rollNo |-> None, email |-> None, password |-> None,
              appliedProjects |-> <<>>]

\* mentorSchema: email, password, assignedProjects
MentorDoc(email, password, assigned) ==
    [found |-> TRUE, email |-> email, password |-> password,
     assignedProjects |-> assigned]

NoMentor == [found |-> FALSE, email |-> None, password |-> None,
             assignedProjects |-> <<>>]

\* bcrypt.hash(password, 10), and bcrypt.compare(password, hash)
BcryptHash(password) == 100 + password

BcryptCompare(password, hash) == BcryptHash(password) = hash

\* Model.findById: the document, or null for an id the collection does not
\* hold; findById(undefined) queries { _id: null } and finds nothing
FindProject(d, id) == IF id \in ProjectIds THEN d.projects[id] ELSE NoProject

FindStudent(d, id) ==
    IF id \in StudentIds /\ d.students[id].found THEN d.students[id] ELSE NoStudent

FindMentor(d, id) ==
    IF id \in MentorIds /\ d.mentors[id].found THEN d.mentors[id] ELSE NoMentor


\* ------------------------------------------------------------- requests
\* the Authorization header of a request: absent, not a "Bearer " header,
\* a bearer token that fails jwt.verify, or a token a login issued
\* valid tells that the signature verifies; exp is the token's expiry time
NoHeader == [kind |-> "none", valid |-> FALSE, userId |-> Undefined, role |-> "none",
             exp |-> 0]

OtherHeader == [kind |-> "other", valid |-> FALSE, userId |-> Undefined, role |-> "none",
                exp |-> 0]

BadToken == [kind |-> "bearer", valid |-> FALSE, userId |-> Undefined, role |-> "none",
             exp |-> 0]

\* jwt.sign({ userId, role }, secret, { expiresIn: '1h' }) at time now
JwtSign(uid, role, now) ==
    [kind |-> "bearer", valid |-> TRUE, userId |-> uid, role |-> role,
     exp |-> now + TokenTtl]

\* a token issued at time 0
Token(uid, role) == JwtSign(uid, role, 0)

\* a verification that looks at the signature only
JwtVerifySignature(hdr, now) == hdr.valid

\* jwt.verify at time now: the signature verifies and the token has not expired
JwtVerify(hdr, now) == hdr.valid /\ now < hdr.exp

IssuedTokens ==
    {Token(AdminId, "admin")}
        \cup {Token(s, "student") : s \in StudentIds}
        \cup {Token(m, "mentor") : m \in MentorIds}

\* req.user before authenticate has set it
NoUser == [set |-> FALSE, userId |-> Undefined, role |-> "none"]

\* the routes behind authenticate and authorize, and the role each allows
StudentOps == {"apply", "getProjects", "getOwn", "studentProfile"}

AdminOps == {"assignMentor", "adminApprove", "adminReject", "deleteStudent",
             "deleteMentor", "adminGetProjects", "adminGetProgress", "dashboard",
             "addStudent", "addMentor", "updateStudent", "updateMentor"}

MentorOps == {"mentorApprove", "mentorReject", "progressV1", "progress",
              "mentorGetOwnV1", "mentorGetOwn", "mentorGetApplicationsV1",
              "mentorGetApplications", "stats",
              "mentorAddStudent", "mentorProfileV1", "mentorProfile"}

\* the login routes, which no guard stands before
LoginOps == {"studentLogin", "adminLogin", "mentorLogin"}

AllowedRoles(op) ==
    IF op \in StudentOps THEN {"student"}
    ELSE IF op \in AdminOps THEN {"admin"}
    ELSE {"mentor"}

\* errorHandler: the status of the response to next(error); resStatus is
\* res.statusCode as the handler left it
errorHandler(resStatus) == IF resStatus = 200 THEN 500 ELSE resStatus

\* a request and the handler's locals.  code is the HTTP status sent (0: no
\* response yet) and msg the message of the response body; err is
\* error.statusCode of an error passed to next(), or 0, and errmsg its message;
\* ran tells whether the route handler was entered.  Of the documents a
\* handler holds, the locals keep what it reads again after a later await:
\* applied is project.studentsApplied, prev the populated project.mentor,
\* assigned is prevMentorData.assignedProjects, stale tells that the array
\* was written in the store after prevMentorData was read, notify are the
\* email addresses of the documents read that a later sendEmail goes to,
\* thrown tells that the call just made threw.
\* Of the request: now is its arrival time, env is process.env.NODE_ENV,
\* email, rollNo and password are req.body's, gen is the password that
\* Math.random generates, mailFails tells that transporter.sendMail rejects.  Of its effects: mails are the recipients of
\* the sendMail calls in order, token the token of the response body, logged
\* tells that errorHandler wrote err.stack to the console, stack that the
\* response body carries err.stack.
NewReq(op, hdr, p, m, s) ==
    [op |-> op, hdr |-> hdr, p |-> p, m |-> m, s |-> s,
     now |-> 0, env |-> "production", mailFails |-> FALSE,
     email |-> None, rollNo |-> None, password |-> None, gen |-> None,
     update |-> None,
     pc |-> "guard", user |-> NoUser, ran |-> FALSE,
     applied |-> <<>>, assigned |-> <<>>, prev |-> None, stale |-> FALSE,
     notify |-> <<>>, thrown |-> FALSE,
     mails |-> <<>>, token |-> NoHeader, logged |-> FALSE, stack |-> FALSE,
     code |-> 0, err |-> 0, errmsg |-> "", msg |-> ""]

\* res.status(code).json({...}) sent by the middleware or the handler itself
Send(r, code, msg) == [r EXCEPT !.pc = "done", !.code = code, !.msg = msg]

\* error.statusCode = code; return next(error): the response is errorHandler's
\* errorHandler logs err.stack, answers err.message and, in development,
\* err.stack
NextError(r, code, msg) ==
    [r EXCEPT !.pc = "done", !.err = code, !.errmsg = msg,
              !.code = errorHandler(200), !.msg = msg,
              !.logged = TRUE, !.stack = (r.env = "development")]

\* ------------------------------------------------------------- the guard
\* authenticate with a token that fails verification answered like a
\* missing one
authenticateOneStatus(r) ==
    IF r.hdr.kind # "bearer" \/ ~JwtVerify(r.hdr, r.now)
    THEN Send(r, 401, "Access denied. No token provided.")
    ELSE [r EXCEPT !.user = [set |-> TRUE, userId |-> r.hdr.userId,
                             role |-> r.hdr.role]]

\* authenticate: 401 without a Bearer header, 400 when jwt.verify throws,
\* else req.user = decoded and next()
authenticate(r) ==
    IF r.hdr.kind # "bearer"
    THEN Send(r, 401, "Access denied. No token provided.")
    ELSE IF ~JwtVerify(r.hdr, r.now)
    THEN Send(r, 400, "Invalid token.")
    ELSE [r EXCEPT !.user = [set |-> TRUE, userId |-> r.hdr.userId,
                             role |-> r.hdr.role]]

\* authorize that lets any authenticated principal through
authorizeAnyRole(roles, r) ==
    IF ~r.user.set
    THEN Send(r, 403, "Access denied. Unauthorized role.")
    ELSE r

\* authorize(roles): 403 unless req.user is set and its role is allowed
authorize(roles, r) ==
    IF ~r.user.set \/ r.user.role \notin roles
    THEN Send(r, 403, "Access denied. Unauthorized role.")
    ELSE r

\* the first store operation of each handler
FirstPc(op) ==
    CASE op = "apply" -> "findProject"
      [] op = "assignMentor" -> "findProject"
      [] op \in {"adminApprove", "adminReject", "mentorApprove", "mentorReject"}
            -> "findProject"
      [] op \in {"progressV1", "progress"} -> "findProject"
      [] op \in {"deleteStudent", "deleteMentor"} -> "findAndDelete"
      [] op \in {"addStudent", "mentorAddStudent", "addMentor"} -> "findExisting"
      [] op \in {"updateStudent", "updateMentor", "mentorProfileV1", "mentorProfile"}
            -> "findAndUpdate"
      [] op = "studentProfile" -> "findStudent"
      [] op \in LoginOps -> "findOne"
      [] OTHER -> "read"

\* router.<method>(path, authenticate, authorize([role]), handler): the
\* middleware chain up to the handler's first await
Enter(r) ==
    LET a == IF r.op \in LoginOps THEN r ELSE authenticate(r)
        z == IF a.pc = "done" \/ r.op \in LoginOps THEN a
             ELSE authorize(AllowedRoles(r.op), a)
    IN IF z.pc = "done" THEN z
       ELSE [z EXCEPT !.pc = FirstPc(r.op), !.ran = TRUE]

\* req.userId had authenticate set it to the token's subject id
ReqUserIdFromToken(r) == r.user.userId

\* req.userId: a property no middleware sets
ReqUserId(r) == Undefined

\* req.user.userId: the subject id of the verified token
ReqUserUserId(r) == r.user.userId

\* the routes on which an account acts on itself
SelfServiceOps ==
    {"apply", "getOwn", "studentProfile",
     "progressV1", "mentorGetApplicationsV1", "mentorProfileV1", "mentorGetOwnV1",
     "progress", "mentorGetApplications", "mentorProfile", "mentorGetOwn"}

\* the id a self-service handler looks its own account up by
LookupId(r) ==
    IF r.op \in {"progress", "mentorGetApplications", "mentorProfile", "mentorGetOwn"}
    THEN ReqUserUserId(r)
    ELSE ReqUserId(r)

Out(d, r) == [db |-> d, r |-> r]

\* a sendEmail that lets the rejection of transporter.sendMail through
sendEmailRethrow(r, to) ==
    [r EXCEPT !.mails = Append(@, [to |-> to, ok |-> ~r.mailFails]),
              !.thrown = r.mailFails]

\* sendEmail(to, subject, html), sendRegistrationEmail(to, password),
\* sendMentorRegistrationEmail(to, password): one transporter.sendMail call;
\* a rejection is caught and logged
sendEmail(r, to) ==
    [r EXCEPT !.mails = Append(@, [to |-> to, ok |-> ~r.mailFails])]

\* a forEach that stops after the first element
ForEachSendEmailOnce(r, tos) ==
    IF tos = <<>> THEN r ELSE sendEmail(r, Head(tos))

\* array.forEach(x => sendEmail(x.email, ...))
RECURSIVE ForEachSendEmail(_, _)
ForEachSendEmail(r, tos) ==
    IF tos = <<>> THEN r
    ELSE ForEachSendEmail(sendEmail(r, Head(tos)), Tail(tos))

\* populate('studentsApplied', 'name email'): the documents of the ids, in
\* order, without the ids whose document is gone; here their emails
RECURSIVE PopulateStudents(_, _)
PopulateStudents(d, ids) ==
    IF ids = <<>> THEN <<>>
    ELSE LET student == d.students[Head(ids)] IN
         (IF student.found THEN <<student.email>> ELSE <<>>)
             \o PopulateStudents(d, Tail(ids))


\* ------------------------------------------------------------- handlers
\* POST /projects/:projectId/apply (student router)
ApplyStep(d, r) ==
    LET studentId == ReqUserId(r) IN
    CASE r.pc = "findProject" ->
           LET project == FindProject(d, r.p) IN
           IF ~project.found
           THEN Out(d, NextError(r, 404, "Project not found."))
           ELSE Out(d, [r EXCEPT !.applied = project.studentsApplied,
                                 !.pc = "findStudent"])
      [] r.pc = "findStudent" ->
           LET student == FindStudent(d, studentId) IN
           IF ~student.found
           THEN Out(d, NextError(r, 404, "Student not found."))
           ELSE IF Includes(r.applied, studentId)
           THEN Out(d, NextError(r, 409, "Already applied for this project."))
           ELSE Out(d, [r EXCEPT !.pc = "saveProject"])
      [] r.pc = "saveProject" ->
           \* project.studentsApplied.push(studentId); project.save(): a $push
           Out([d EXCEPT !.projects[r.p].studentsApplied = Append(@, studentId)],
               [r EXCEPT !.pc = "saveStudent"])
      [] r.pc = "saveStudent" ->
           \* student.appliedProjects.push(projectId); student.save(): a $push,
           \* which throws when the document is gone
           IF ~FindStudent(d, studentId).found
           THEN Out(d, NextError(r, 500, "No document found"))
           ELSE Out([d EXCEPT !.students[studentId].appliedProjects = Append(@, r.p)],
                    Send(r, 200, "Application submitted successfully."))

\* an assignment that also sends the project back to Pending
SetProjectMentorAndReopen(project, mentorId) ==
    [project EXCEPT !.mentor = mentorId, !.status = "Pending"]

\* project.mentor = mentorId: the one path of the project that the save writes
SetProjectMentor(project, mentorId) == [project EXCEPT !.mentor = mentorId]

\* PUT /projects/:projectId/assign-mentor (admin router)
AssignMentorStep(d, r) ==
    CASE r.pc = "findProject" ->
           \* findById(projectId).populate('mentor'): a reference to a mentor
           \* that is gone populates as null
           LET project == FindProject(d, r.p) IN
           IF ~project.found
           THEN Out(d, NextError(r, 404, "Project not found."))
           ELSE Out(d, [r EXCEPT !.prev = IF FindMentor(d, project.mentor).found
                                          THEN project.mentor ELSE None,
                                 !.pc = "findMentor"])
      [] r.pc = "findMentor" ->
           LET mentor == FindMentor(d, r.m) IN
           IF ~mentor.found
           THEN Out(d, NextError(r, 404, "Mentor not found."))
           ELSE Out(d, [r EXCEPT !.notify = <<mentor.email>>, !.pc = "saveProject"])
      [] r.pc = "saveProject" ->
           \* project.mentor = mentorId; project.save()
           Out([d EXCEPT !.projects[r.p] = SetProjectMentor(@, r.m)],
               [r EXCEPT !.pc = "saveMentor"])
      [] r.pc = "saveMentor" ->
           \* mentor.assignedProjects.push(projectId); mentor.save()
           IF ~FindMentor(d, r.m).found
           THEN Out(d, NextError(r, 500, "No document found"))
           ELSE LET d2 == [d EXCEPT !.mentors[r.m].assignedProjects = Append(@, r.p)]
                    r2 == ForEachSendEmail(r, r.notify)
                IN IF r.prev # None /\ r.prev # r.m
                   THEN Out(d2, [r2 EXCEPT !.pc = "findPrev"])
                   ELSE Out(d2, Send(r2, 200, "Mentor assigned to project successfully."))
      [] r.pc = "findPrev" ->
           LET prevMentorData == FindMentor(d, r.prev) IN
           IF ~prevMentorData.found
           THEN Out(d, Send(r, 200, "Mentor assigned to project successfully."))
           ELSE Out(d, [r EXCEPT !.assigned = prevMentorData.assignedProjects,
                                 !.notify = <<prevMentorData.email>>,
                                 !.stale = FALSE, !.pc = "savePrev"])
      [] r.pc = "savePrev" ->
           \* prevMentorData.assignedProjects = assignedProjects.filter(...);
           \* prevMentorData.save(): nothing to write when the filter removed
           \* nothing; else a $set of the array under the document's version,
           \* which throws when the array was written since it was read
           LET kept == FilterOut(r.assigned, r.p)
               r2 == ForEachSendEmail(r, r.notify)
           IN
           IF kept = r.assigned
           THEN Out(d, Send(r2, 200, "Mentor assigned to project successfully."))
           ELSE IF ~FindMentor(d, r.prev).found \/ r.stale
           THEN Out(d, NextError(r, 500, "No matching document found"))
           ELSE Out([d EXCEPT !.mentors[r.prev].assignedProjects = kept],
                    Send(r2, 200, "Mentor assigned to project successfully."))

NotPendingMsg(target) ==
    IF target = "Approved" THEN "Project is not pending for approval."
    ELSE "Project is not pending for rejection."

DecidedMsg(target) ==
    IF target = "Approved" THEN "Project approved successfully."
    ELSE "Project rejected successfully."

\* the admin decision without its check of the current status
AdminDecideStepUnchecked(d, r, target) ==
    CASE r.pc = "findProject" ->
           LET project == FindProject(d, r.p) IN
           IF ~project.found
           THEN Out(d, NextError(r, 404, "Project not found."))
           ELSE Out(d, [r EXCEPT !.notify = PopulateStudents(d, project.studentsApplied),
                                 !.pc = "saveProject"])
      [] r.pc = "saveProject" ->
           Out([d EXCEPT !.projects[r.p].status = target],
               Send(ForEachSendEmail(r, r.notify), 200, DecidedMsg(target)))

\* PUT /projects/:projectId/approve and /reject (admin router)
AdminDecideStep(d, r, target) ==
    CASE r.pc = "findProject" ->
           LET project == FindProject(d, r.p) IN
           IF ~project.found
           THEN Out(d, NextError(r, 404, "Project not found."))
           ELSE IF project.status # "Pending"
           THEN Out(d, NextError(r, 400, NotPendingMsg(target)))
           ELSE Out(d, [r EXCEPT !.notify = PopulateStudents(d, project.studentsApplied),
                                 !.pc = "saveProject"])
      [] r.pc = "saveProject" ->
           \* project.status = target; project.save(); then a sendEmail to
           \* every populated applicant
           Out([d EXCEPT !.projects[r.p].status = target],
               Send(ForEachSendEmail(r, r.notify), 200, DecidedMsg(target)))

\* PUT /projects/:projectId/approve and /reject (mentor router)
MentorDecideStep(d, r, target) ==
    CASE r.pc = "findProject" ->
           LET project == FindProject(d, r.p) IN
           IF ~project.found
           THEN Out(d, Send(r, 404, "Project not found."))
           ELSE Out(d, [r EXCEPT !.pc = "saveProject"])
      [] r.pc = "saveProject" ->
           Out([d EXCEPT !.projects[r.p].status = target],
               Send(r, 200, DecidedMsg(target)))

\* { studentId, progressUpdate, timestamp: new Date() }: the object the
\* progress handler pushes onto project.submissions
RawSubmission(r) ==
    [studentId |-> r.s, progressUpdate |-> r.update, timestamp |-> r.now]

\* the cast of a pushed object to the submissions sub-schema: the declared
\* paths studentId, files and progressUpdates are kept, files and
\* progressUpdates default to empty arrays, and the paths the sub-schema does
\* not declare (progressUpdate, timestamp) are dropped
CastSubmission(raw) ==
    [studentId |-> raw.studentId, files |-> <<>>, progressUpdates |-> <<>>]

\* GET /projects/:projectId/progress (admin router): progress: project.submissions
AdminProgressView(d, p) == FindProject(d, p).submissions


\* recordProgress that puts the new entry first
ProgressStepUnshift(d, r, mentorId) ==
    CASE r.pc = "findProject" ->
           LET project == FindProject(d, r.p) IN
           IF ~project.found
           THEN Out(d, Send(r, 404, "Project not found."))
           ELSE Out(d, [r EXCEPT !.applied = project.studentsApplied,
                                 !.pc = "findMentor"])
      [] r.pc = "findMentor" ->
           LET mentor == FindMentor(d, mentorId) IN
           IF ~mentor.found \/ ~Includes(mentor.assignedProjects, r.p)
           THEN Out(d, Send(r, 401, "Unauthorized - You are not the mentor for this project."))
           ELSE Out(d, [r EXCEPT !.pc = "findStudent"])
      [] r.pc = "findStudent" ->
           LET student == FindStudent(d, r.s) IN
           IF ~student.found \/ ~Includes(r.applied, r.s)
           THEN Out(d, Send(r, 404, "Student not found or not applied to this project."))
           ELSE Out(d, [r EXCEPT !.pc = "saveProject"])
      [] r.pc = "saveProject" ->
           Out([d EXCEPT !.projects[r.p].submissions = <<CastSubmission(RawSubmission(r))>> \o @],
               Send(r, 200, "Progress updated successfully."))

\* PUT /projects/:projectId/progress (mentor router); mentorId is the id the
\* handler looks its mentor up by
ProgressStep(d, r, mentorId) ==
    CASE r.pc = "findProject" ->
           LET project == FindProject(d, r.p) IN
           IF ~project.found
           THEN Out(d, Send(r, 404, "Project not found."))
           ELSE Out(d, [r EXCEPT !.applied = project.studentsApplied,
                                 !.pc = "findMentor"])
      [] r.pc = "findMentor" ->
           LET mentor == FindMentor(d, mentorId) IN
           IF ~mentor.found \/ ~Includes(mentor.assignedProjects, r.p)
           THEN Out(d, Send(r, 401, "Unauthorized - You are not the mentor for this project."))
           ELSE Out(d, [r EXCEPT !.pc = "findStudent"])
      [] r.pc = "findStudent" ->
           LET student == FindStudent(d, r.s) IN
           IF ~student.found \/ ~Includes(r.applied, r.s)
           THEN Out(d, Send(r, 404, "Student not found or not applied to this project."))
           ELSE Out(d, [r EXCEPT !.pc = "saveProject"])
      [] r.pc = "saveProject" ->
           \* project.submissions.push({...}); project.save(): a $push
           Out([d EXCEPT !.projects[r.p].submissions = Append(@, CastSubmission(RawSubmission(r)))],
               Send(r, 200, "Progress updated successfully."))

\* a delete that also takes the student out of every project's studentsApplied
DeleteStudentStepCascade(d, r) ==
    IF ~FindStudent(d, r.s).found
    THEN Out(d, NextError(r, 404, "Student not found."))
    ELSE Out([d EXCEPT !.students[r.s] = NoStudent,
                       !.projects = [p \in ProjectIds |->
                           [d.projects[p] EXCEPT !.studentsApplied = FilterOut(@, r.s)]]],
             Send(r, 200, "Student deleted successfully."))

\* DELETE /delete-student/:studentId (admin router): findByIdAndDelete
DeleteStudentStep(d, r) ==
    IF ~FindStudent(d, r.s).found
    THEN Out(d, NextError(r, 404, "Student not found."))
    ELSE Out([d EXCEPT !.students[r.s] = NoStudent],
             Send(r, 200, "Student deleted successfully."))

\* DELETE /delete-mentor/:mentorId (admin router): findByIdAndDelete
DeleteMentorStep(d, r) ==
    IF ~FindMentor(d, r.m).found
    THEN Out(d, NextError(r, 404, "Mentor not found."))
    ELSE Out([d EXCEPT !.mentors[r.m] = NoMentor],
             Send(r, 200, "Mentor deleted successfully."))

\* GET /projects/:projectId/applications (mentor router)
MentorApplicationsStep(d, r, mentorId) ==
    CASE r.pc = "read" ->
           LET project == FindProject(d, r.p) IN
           IF ~project.found
           THEN Out(d, Send(r, 404, "Project not found."))
           ELSE Out(d, [r EXCEPT !.applied = project.studentsApplied,
                                 !.pc = "findMentor"])
      [] r.pc = "findMentor" ->
           LET mentor == FindMentor(d, mentorId) IN
           IF ~mentor.found \/ ~Includes(mentor.assignedProjects, r.p)
           THEN Out(d, Send(r, 401, "Unauthorized - You are not the mentor for this project."))
           ELSE Out(d, Send(r, 200, "studentsApplied"))

\* the GET handlers that read one document or one collection
ReadStep(d, r) ==
    CASE r.op = "getOwn" ->
           \* GET /applications, GET /profile (student router)
           IF ~FindStudent(d, ReqUserId(r)).found
           THEN Out(d, NextError(r, 404, "Student not found."))
           ELSE Out(d, Send(r, 200, "student"))
      [] r.op = "adminGetProgress" ->
           IF ~FindProject(d, r.p).found
           THEN Out(d, NextError(r, 404, "Project not found."))
           ELSE Out(d, Send(r, 200, "progress"))
      [] r.op = "mentorGetOwnV1" ->
           \* GET /projects, GET /profile (mentor router, req.userId)
           IF ~FindMentor(d, ReqUserId(r)).found
           THEN Out(d, Send(r, 404, "Mentor not found."))
           ELSE Out(d, Send(r, 200, "mentor"))
      [] r.op = "mentorGetOwn" ->
           \* GET /projects, GET /profile (mentor router, req.user.userId)
           IF ~FindMentor(d, ReqUserUserId(r)).found
           THEN Out(d, Send(r, 404, "Mentor not found."))
           ELSE Out(d, Send(r, 200, "mentor"))
      [] OTHER ->
           \* GET /projects (student, admin), /dashboard, /stats
           Out(d, Send(r, 200, "list"))

\* ------------------------------------------------------------- accounts
\* the schemas' setter of email (lowercase: true), which Mongoose applies to
\* the documents it saves and to the values of queries and updates: email
\* 10 + e is e written with capital letters
Lower(email) == IF email = None THEN None ELSE email % 10

\* check('email').isEmail(), check('rollNo').notEmpty().isNumeric(),
\* check('password').notEmpty(): None is a field the body lacks
IsEmail(email) == email # None

NotEmpty(x) == x # None

\* the ObjectId of a new document: an id no document has had
FreshStudentId(d) ==
    IF \A s \in StudentIds : d.students[s].found THEN None
    ELSE CHOOSE s \in StudentIds :
             ~d.students[s].found /\ \A t \in 1..(s - 1) : d.students[t].found

FreshMentorId(d) ==
    IF \A m \in MentorIds : d.mentors[m].found THEN None
    ELSE CHOOSE m \in MentorIds :
             ~d.mentors[m].found /\ \A t \in 1..(m - 1) : d.mentors[t].found

\* a collection without unique indexes lets every write through
StudentIndexNone(d, self, rollNo, email) == TRUE

\* the unique indexes of the students collection (rollNo, email) and of the
\* mentors collection (email): a write that would give the document with id
\* self a value another document holds fails with E11000
StudentIndexFree(d, self, rollNo, email) ==
    \A s \in StudentIds \ {self} :
        d.students[s].found =>
            d.students[s].rollNo # rollNo /\ d.students[s].email # email

MentorIndexFree(d, self, email) ==
    \A m \in MentorIds \ {self} :
        d.mentors[m].found => d.mentors[m].email # email

\* Student.findOne({ $or: [{ rollNo }, { email }] }) finds a document
ExistingStudent(d, rollNo, email) ==
    \E s \in StudentIds :
        /\ d.students[s].found
        /\ (d.students[s].rollNo = rollNo \/ d.students[s].email = Lower(email))

\* Student.findOne({ email }), Mentor.findOne({ email }): the id of the
\* document, or None
StudentByEmail(d, email) ==
    LET S == {s \in StudentIds : d.students[s].found /\ d.students[s].email = Lower(email)}
    IN IF S = {} THEN None ELSE CHOOSE s \in S : \A t \in S : s <= t

MentorByEmail(d, email) ==
    LET S == {m \in MentorIds : d.mentors[m].found /\ d.mentors[m].email = Lower(email)}
    IN IF S = {} THEN None ELSE CHOOSE m \in S : \A t \in S : m <= t

\* POST /add-student; direct tells the mentor router's handler, which sends
\* its 409 itself, from the admin router's, which passes it to next()
AddStudentStep(d, r, direct) ==
    CASE r.pc = "findExisting" ->
           IF ~(NotEmpty(r.rollNo) /\ IsEmail(r.email))
           THEN Out(d, Send(r, 400, "errors"))
           ELSE IF ExistingStudent(d, r.rollNo, r.email)
           THEN Out(d, IF direct
                       THEN Send(r, 409, "Student with this roll number or email already exists.")
                       ELSE NextError(r, 409, "Student with this roll number or email already exists."))
           ELSE Out(d, [r EXCEPT !.pc = "insert"])
      [] r.pc = "insert" ->
           \* newStudent.save(), then await sendRegistrationEmail(...)
           LET id == FreshStudentId(d)
               r2 == sendEmail(r, r.email)
           IN IF ~StudentIndexFree(d, id, r.rollNo, Lower(r.email))
              THEN Out(d, NextError(r, 500, "E11000 duplicate key error"))
              ELSE LET d2 == [d EXCEPT !.students[id] =
                                 StudentDoc(r.rollNo, Lower(r.email), BcryptHash(r.gen), <<>>)]
                   IN IF r2.thrown
                      THEN Out(d2, NextError(r2, 500, "sendMail failed"))
                      ELSE Out(d2, Send(r2, 201, "Student added successfully."))

\* POST /add-mentor (admin router)
AddMentorStep(d, r) ==
    CASE r.pc = "findExisting" ->
           IF ~IsEmail(r.email)
           THEN Out(d, Send(r, 400, "errors"))
           ELSE IF MentorByEmail(d, r.email) # None
           THEN Out(d, NextError(r, 409, "Mentor with this email already exists."))
           ELSE Out(d, [r EXCEPT !.pc = "insert"])
      [] r.pc = "insert" ->
           \* newMentor.save(), then await sendMentorRegistrationEmail(...)
           LET id == FreshMentorId(d)
               r2 == sendEmail(r, r.email)
           IN IF ~MentorIndexFree(d, id, Lower(r.email))
              THEN Out(d, NextError(r, 500, "E11000 duplicate key error"))
              ELSE LET d2 == [d EXCEPT !.mentors[id] =
                                 MentorDoc(Lower(r.email), BcryptHash(r.gen), <<>>)]
                   IN IF r2.thrown
                      THEN Out(d2, NextError(r2, 500, "sendMail failed"))
                      ELSE Out(d2, Send(r2, 201, "Mentor added successfully."))

\* PUT /update-student/:studentId (admin router): findByIdAndUpdate; a field
\* the body lacks is left as it is
UpdateStudentStep(d, r) ==
    LET student == FindStudent(d, r.s) IN
    IF ~student.found
    THEN Out(d, NextError(r, 404, "Student not found."))
    ELSE IF r.email = None
    THEN Out(d, Send(r, 200, "Student updated successfully."))
    ELSE IF ~StudentIndexFree(d, r.s, student.rollNo, Lower(r.email))
    THEN Out(d, NextError(r, 500, "E11000 duplicate key error"))
    ELSE Out([d EXCEPT !.students[r.s].email = Lower(r.email)],
             Send(r, 200, "Student updated successfully."))

\* PUT /update-mentor/:mentorId (admin router): findByIdAndUpdate
UpdateMentorStep(d, r) ==
    LET mentor == FindMentor(d, r.m) IN
    IF ~mentor.found
    THEN Out(d, NextError(r, 404, "Mentor not found."))
    ELSE IF r.email = None
    THEN Out(d, Send(r, 200, "Mentor updated successfully."))
    ELSE IF ~MentorIndexFree(d, r.m, Lower(r.email))
    THEN Out(d, NextError(r, 500, "E11000 duplicate key error"))
    ELSE Out([d EXCEPT !.mentors[r.m].email = Lower(r.email)],
             Send(r, 200, "Mentor updated successfully."))

\* PUT /profile (student router): findById(req.userId), then save()
StudentProfileStep(d, r) ==
    LET studentId == ReqUserId(r) IN
    CASE r.pc = "findStudent" ->
           IF ~FindStudent(d, studentId).found
           THEN Out(d, NextError(r, 404, "Student not found."))
           ELSE Out(d, [r EXCEPT !.pc = "saveStudent"])
      [] r.pc = "saveStudent" ->
           LET student == FindStudent(d, studentId)
               email == IF r.email = None THEN student.email ELSE Lower(r.email)
               password == IF r.password = None THEN student.password
                           ELSE BcryptHash(r.password)
           IN IF ~student.found
              THEN Out(d, NextError(r, 500, "No document found"))
              ELSE IF ~StudentIndexFree(d, studentId, student.rollNo, email)
              THEN Out(d, NextError(r, 500, "E11000 duplicate key error"))
              ELSE Out([d EXCEPT !.students[studentId].email = email,
                                 !.students[studentId].password = password],
                       Send(r, 200, "Profile updated successfully."))

\* PUT /profile (mentor router): findByIdAndUpdate(mentorId, updateFields)
MentorProfileStep(d, r, mentorId) ==
    LET mentor == FindMentor(d, mentorId)
        email == IF r.email = None THEN mentor.email ELSE Lower(r.email)
        password == IF r.password = None THEN mentor.password
                    ELSE BcryptHash(r.password)
    IN IF ~mentor.found
       THEN Out(d, Send(r, 404, "Mentor not found."))
       ELSE IF ~MentorIndexFree(d, mentorId, email)
       THEN Out(d, NextError(r, 500, "E11000 duplicate key error"))
       ELSE Out([d EXCEPT !.mentors[mentorId].email = email,
                          !.mentors[mentorId].password = password],
                Send(r, 200, "Profile updated successfully."))

\* res.json({ token, role, userId })
SendToken(r, token) == [Send(r, 200, "token") EXCEPT !.token = token]

\* POST /login of the student, admin and mentor routers
LoginStep(d, r) ==
    IF ~(IsEmail(r.email) /\ NotEmpty(r.password))
    THEN Out(d, Send(r, 400, "errors"))
    ELSE CASE r.op = "adminLogin" ->
                IF r.email = AdminEmail /\ r.password = AdminPassword
                THEN Out(d, SendToken(r, JwtSign(AdminId, "admin", r.now)))
                ELSE Out(d, NextError(r, 401, "Invalid credentials"))
           [] r.op = "studentLogin" ->
                LET id == StudentByEmail(d, r.email) IN
                IF id = None
                THEN Out(d, NextError(r, 401, "Invalid credentials"))
                ELSE IF ~BcryptCompare(r.password, d.students[id].password)
                THEN Out(d, NextError(r, 401, "Invalid credentials"))
                ELSE Out(d, SendToken(r, JwtSign(id, "student", r.now)))
           [] r.op = "mentorLogin" ->
                LET id == MentorByEmail(d, r.email) IN
                IF id = None
                THEN Out(d, Send(r, 401, "Invalid credentials"))
                ELSE IF ~BcryptCompare(r.password, d.mentors[id].password)
                THEN Out(d, Send(r, 401, "Invalid credentials"))
                ELSE Out(d, SendToken(r, JwtSign(id, "mentor", r.now)))

\* one store operation of the handler of r
Step(d, r) ==
    CASE r.op = "apply" -> ApplyStep(d, r)
      [] r.op = "assignMentor" -> AssignMentorStep(d, r)
      [] r.op = "adminApprove" -> AdminDecideStep(d, r, "Approved")
      [] r.op = "adminReject" -> AdminDecideStep(d, r, "Rejected")
      [] r.op = "mentorApprove" -> MentorDecideStep(d, r, "Approved")
      [] r.op = "mentorReject" -> MentorDecideStep(d, r, "Rejected")
      [] r.op = "progressV1" -> ProgressStep(d, r, ReqUserId(r))
      [] r.op = "progress" -> ProgressStep(d, r, ReqUserUserId(r))
      [] r.op = "deleteStudent" -> DeleteStudentStep(d, r)
      [] r.op = "deleteMentor" -> DeleteMentorStep(d, r)
      [] r.op = "mentorGetApplicationsV1" -> MentorApplicationsStep(d, r, ReqUserId(r))
      [] r.op = "mentorGetApplications" -> MentorApplicationsStep(d, r, ReqUserUserId(r))
      [] r.op = "addStudent" -> AddStudentStep(d, r, FALSE)
      [] r.op = "mentorAddStudent" -> AddStudentStep(d, r, TRUE)
      [] r.op = "addMentor" -> AddMentorStep(d, r)
      [] r.op = "updateStudent" -> UpdateStudentStep(d, r)
      [] r.op = "updateMentor" -> UpdateMentorStep(d, r)
      [] r.op = "studentProfile" -> StudentProfileStep(d, r)
      [] r.op = "mentorProfileV1" -> MentorProfileStep(d, r, ReqUserId(r))
      [] r.op = "mentorProfile" -> MentorProfileStep(d, r, ReqUserUserId(r))
      [] r.op \in LoginOps -> LoginStep(d, r)
      [] OTHER -> ReadStep(d, r)

\* the handler of r run from its current step to its response, no other
\* request's store operation in between
RECURSIVE Run(_, _)
Run(d, r) ==
    IF r.pc = "done" THEN Out(d, r)
    ELSE LET x == Step(d, r) IN Run(x.db, x.r)


\* ------------------------------------------------------------- initial store
\* No route creates a project: the projects are in the store from the start,
\* Pending (the schema default) or Completed, unassigned, with the students
\* that applied; every account exists and mirrors the projects' references.
\* Account s has roll number s, email s and password s.
InitProjects ==
    [ProjectIds -> {ProjectDoc(st, None, SetToSeq(A), <<>>) :
                        st \in {"Pending", "Completed"}, A \in SUBSET StudentIds}]

InitDb(projects) ==
    [projects |-> projects,
     students |-> [s \in StudentIds |->
                     StudentDoc(s, s, BcryptHash(s),
                                SetToSeq({p \in ProjectIds :
                                    Includes(projects[p].studentsApplied, s)}))],
     mentors |-> [m \in MentorIds |-> MentorDoc(m, BcryptHash(m), <<>>)]]

Idle == [NewReq("none", NoHeader, None, None, None) EXCEPT !.pc = "idle"]

Init ==
    /\ db \in {InitDb(ps) : ps \in InitProjects}
    /\ last = Idle
    /\ before = db
    /\ inflight = [i \in 1..MaxInflight |-> Idle]
    /\ limits = NoLimits

\* the ids a request may name: those of the collection and one it lacks
ProjectArgs == ProjectIds \cup {UnknownId}
StudentArgs == StudentIds \cup {UnknownId}
MentorArgs == MentorIds \cup {UnknownId}

\* the arrays the model lets grow no further
AssignRoom(d, m) ==
    m \in MentorIds => Len(d.mentors[m].assignedProjects) < MaxAssigned

SubmitRoom(d, p) ==
    p \in ProjectIds => Len(d.projects[p].submissions) < MaxSubmissions

\* the headers tried on a route: the three that carry no valid token, every
\* issued token of an allowed role, and one issued token of each other role
HeadersFor(op) ==
    {NoHeader, OtherHeader, BadToken}
        \cup {t \in IssuedTokens : t.role \in AllowedRoles(op)}
        \cup {t \in {Token(AdminId, "admin"), Token(1, "student"), Token(1, "mentor")} :
                 t.role \notin AllowedRoles(op)}

\* ------------------------------------------------------------- one request at a time
\* A request is served from the guard to its response with no other request
\* in between; last holds the exchange until the response is delivered, and
\* before the store as the request found it.
Serve(op, hdr, p, m, s) ==
    LET x == Run(db, Enter(NewReq(op, hdr, p, m, s))) IN
    /\ last.pc = "idle"
    /\ db' = x.db
    /\ last' = x.r
    /\ before' = db
    /\ UNCHANGED <<inflight, limits>>

\* the response is delivered and the server takes the next request
Respond ==
    /\ last.pc = "done"
    /\ last' = Idle
    /\ before' = db
    /\ UNCHANGED <<db, inflight, limits>>

Apply ==
    \E hdr \in HeadersFor("apply"), p \in ProjectArgs :
        Serve("apply", hdr, p, None, None)

AssignMentor ==
    \E hdr \in HeadersFor("assignMentor"), p \in ProjectArgs, m \in MentorArgs :
        AssignRoom(db, m) /\ Serve("assignMentor", hdr, p, m, None)

AdminApprove ==
    \E hdr \in HeadersFor("adminApprove"), p \in ProjectArgs :
        Serve("adminApprove", hdr, p, None, None)

AdminReject ==
    \E hdr \in HeadersFor("adminReject"), p \in ProjectArgs :
        Serve("adminReject", hdr, p, None, None)

MentorApprove ==
    \E hdr \in HeadersFor("mentorApprove"), p \in ProjectArgs :
        Serve("mentorApprove", hdr, p, None, None)

MentorReject ==
    \E hdr \in HeadersFor("mentorReject"), p \in ProjectArgs :
        Serve("mentorReject", hdr, p, None, None)

RecordProgressV1 ==
    \E hdr \in HeadersFor("progressV1"), p \in ProjectArgs, s \in StudentArgs :
        SubmitRoom(db, p) /\ Serve("progressV1", hdr, p, None, s)

RecordProgress ==
    \E hdr \in HeadersFor("progress"), p \in ProjectArgs, s \in StudentArgs :
        SubmitRoom(db, p) /\ Serve("progress", hdr, p, None, s)

DeleteStudent ==
    \E hdr \in HeadersFor("deleteStudent"), s \in StudentArgs :
        Serve("deleteStudent", hdr, None, None, s)

DeleteMentor ==
    \E hdr \in HeadersFor("deleteMentor"), m \in MentorArgs :
        Serve("deleteMentor", hdr, None, m, None)

MentorGetApplicationsV1 ==
    \E hdr \in HeadersFor("mentorGetApplicationsV1"), p \in ProjectArgs :
        Serve("mentorGetApplicationsV1", hdr, p, None, None)

MentorGetApplications ==
    \E hdr \in HeadersFor("mentorGetApplications"), p \in ProjectArgs :
        Serve("mentorGetApplications", hdr, p, None, None)

AdminGetProgress ==
    \E hdr \in HeadersFor("adminGetProgress"), p \in ProjectArgs :
        Serve("adminGetProgress", hdr, p, None, None)

\* the GET routes that take no id
Get ==
    \E op \in {"getProjects", "getOwn", "adminGetProjects", "dashboard",
               "mentorGetOwnV1", "mentorGetOwn", "stats"} :
        \E hdr \in HeadersFor(op) : Serve(op, hdr, None, None, None)

Next ==
    \/ Apply
    \/ AssignMentor
    \/ AdminApprove
    \/ AdminReject
    \/ MentorApprove
    \/ MentorReject
    \/ RecordProgressV1
    \/ RecordProgress
    \/ DeleteStudent
    \/ DeleteMentor
    \/ MentorGetApplicationsV1
    \/ MentorGetApplications
    \/ AdminGetProgress
    \/ Get
    \/ Respond

Spec == Init /\ [][Next]_vars


\* ------------------------------------------------------------- accounts, one request at a time
\* The admin has added student 1 and mentor 1; student 1 is an applicant of
\* the projects, which are Pending and unassigned.
AcctInitDb ==
    [projects |-> [p \in ProjectIds |-> ProjectDoc("Pending", None, <<1>>, <<>>)],
     students |-> [s \in StudentIds |->
                     IF s = 1 THEN StudentDoc(1, 1, BcryptHash(1), SetToSeq(ProjectIds))
                     ELSE NoStudent],
     mentors |-> [m \in MentorIds |->
                     IF m = 1 THEN MentorDoc(1, BcryptHash(1), <<>>) ELSE NoMentor]]

AcctInit ==
    /\ db = AcctInitDb
    /\ last = Idle
    /\ before = db
    /\ inflight = [i \in 1..MaxInflight |-> Idle]
    /\ limits = NoLimits

\* the values a body may carry: an email in small or (10 + e) in capital
\* letters, a roll number, a password; None for a field it lacks
Emails == 1..NumStudents

EmailArgs == Emails \cup {10 + 1, None}

RollNos == 1..NumStudents

Passwords == 1..NumPasswords

\* process.env.NODE_ENV
Envs == {"production", "development"}

Times == 0..MaxClock

\* the tokens tried on a route: every issued token of an allowed role and one
\* of each other role
TokensFor(op) == HeadersFor(op) \ {NoHeader, OtherHeader, BadToken}

\* the request r is served from the guard to its response
ServeReq(r) ==
    LET x == Run(db, Enter(r)) IN
    /\ last.pc = "idle"
    /\ db' = x.db
    /\ last' = x.r
    /\ before' = db
    /\ UNCHANGED <<inflight, limits>>

StudentRoom(d) == FreshStudentId(d) # None

MentorRoom(d) == FreshMentorId(d) # None

\* Outcomes are the outcomes of transporter.sendMail that are tried
AddStudentWith(Outcomes) ==
    \E op \in {"addStudent", "mentorAddStudent"} :
      \E hdr \in TokensFor(op), email \in EmailArgs, rollNo \in RollNos,
         gen \in Passwords, fails \in Outcomes :
        /\ StudentRoom(db)
        /\ ServeReq([NewReq(op, hdr, None, None, None) EXCEPT
                        !.email = email, !.rollNo = rollNo, !.gen = gen,
                        !.mailFails = fails])

AddMentorWith(Outcomes) ==
    \E hdr \in TokensFor("addMentor"), email \in EmailArgs, gen \in Passwords,
       fails \in Outcomes :
        /\ MentorRoom(db)
        /\ ServeReq([NewReq("addMentor", hdr, None, None, None) EXCEPT
                        !.email = email, !.gen = gen, !.mailFails = fails])

UpdateStudent ==
    \E hdr \in TokensFor("updateStudent"), s \in StudentArgs, email \in EmailArgs,
       env \in Envs :
        ServeReq([NewReq("updateStudent", hdr, None, None, s) EXCEPT
                     !.email = email, !.env = env])

UpdateMentor ==
    \E hdr \in TokensFor("updateMentor"), m \in MentorArgs, email \in EmailArgs,
       env \in Envs :
        ServeReq([NewReq("updateMentor", hdr, None, m, None) EXCEPT
                     !.email = email, !.env = env])

UpdateProfile ==
    \E op \in {"studentProfile", "mentorProfileV1", "mentorProfile"} :
      \E hdr \in TokensFor(op), email \in EmailArgs, password \in Passwords \cup {None} :
        ServeReq([NewReq(op, hdr, None, None, None) EXCEPT
                     !.email = email, !.password = password])

Login ==
    \E op \in LoginOps :
      \E email \in EmailArgs \cup {AdminEmail},
         password \in Passwords \cup {AdminPassword, None}, now \in Times :
        ServeReq([NewReq(op, NoHeader, None, None, None) EXCEPT
                     !.email = email, !.password = password, !.now = now])

\* a token that a login issued at time iat is presented at a later time
Present ==
    \E op \in {"dashboard", "mentorGetOwn"} :
      \E iat \in Times, now \in Times, hdr \in TokensFor(op) :
        /\ iat <= now
        /\ ServeReq([NewReq(op, JwtSign(hdr.userId, hdr.role, iat), None, None, None)
                        EXCEPT !.now = now])

Decide ==
    \E op \in {"adminApprove", "adminReject", "mentorApprove", "mentorReject"} :
      \E hdr \in TokensFor(op), p \in ProjectArgs, fails \in BOOLEAN :
        ServeReq([NewReq(op, hdr, p, None, None) EXCEPT !.mailFails = fails])

Assign ==
    \E hdr \in TokensFor("assignMentor"), p \in ProjectArgs, m \in MentorArgs,
       fails \in BOOLEAN :
        /\ AssignRoom(db, m)
        /\ ServeReq([NewReq("assignMentor", hdr, p, m, None) EXCEPT !.mailFails = fails])

\* accounts are added, updated and logged into; every mail is delivered
AddStudent == AddStudentWith({FALSE})

AddMentor == AddMentorWith({FALSE})

AcctNext ==
    \/ AddStudent
    \/ AddMentor
    \/ UpdateStudent
    \/ UpdateMentor
    \/ UpdateProfile
    \/ Login
    \/ Present
    \/ Respond

AcctSpec == AcctInit /\ [][AcctNext]_vars

\* the admin's operations that send mail; a mail is delivered or fails
AddStudentMail == AddStudentWith(BOOLEAN)

AddMentorMail == AddMentorWith(BOOLEAN)

MailNext ==
    \/ AddStudentMail
    \/ AddMentorMail
    \/ Decide
    \/ Assign
    \/ Respond

MailSpec == AcctInit /\ [][MailNext]_vars


\* ------------------------------------------------------------- requests in flight
\* Handlers are async functions: between two store operations of one request
\* the store operations of the others may run.  inflight holds the requests
\* being served, each at its next store operation, and the answered ones
\* until their response is delivered.
ConcOps == {"apply", "deleteStudent"}

Pending(i) == inflight[i].pc \notin {"idle", "done"}

\* the requests in flight that will still push onto m.assignedProjects
AssignsInFlight(m) ==
    Cardinality({i \in 1..MaxInflight :
        /\ inflight[i].op = "assignMentor"
        /\ inflight[i].m = m
        /\ inflight[i].pc \in {"findProject", "findMentor", "saveProject", "saveMentor"}})

\* the requests in flight that will still push onto p.submissions
SubmitsInFlight(p) ==
    Cardinality({i \in 1..MaxInflight :
        /\ inflight[i].op \in {"progressV1", "progress"}
        /\ inflight[i].p = p
        /\ Pending(i)})

ConcRoom(op, p, m) ==
    /\ (op = "assignMentor" /\ m \in MentorIds) =>
           Len(db.mentors[m].assignedProjects) + AssignsInFlight(m) < MaxAssigned
    /\ (op \in {"progressV1", "progress"} /\ p \in ProjectIds) =>
           Len(db.projects[p].submissions) + SubmitsInFlight(p) < MaxSubmissions

\* the arguments a route reads
ArgsOf(op) ==
    [p |-> IF op \in {"deleteStudent", "deleteMentor"} THEN {None} ELSE ProjectArgs,
     m |-> IF op \in {"assignMentor", "deleteMentor"} THEN MentorArgs ELSE {None},
     s |-> IF op \in {"progressV1", "progress", "deleteStudent"} THEN StudentArgs
           ELSE {None}]

\* a request arrives with a token of an allowed role, passes the guard and
\* reaches the first await of its handler
CBegin ==
    \E op \in ConcOps :
      \E hdr \in {t \in IssuedTokens : t.role \in AllowedRoles(op)},
         p \in ArgsOf(op).p, m \in ArgsOf(op).m, s \in ArgsOf(op).s,
         i \in 1..MaxInflight :
        /\ inflight[i].pc = "idle"
        /\ \A j \in 1..(i - 1) : inflight[j].pc # "idle"
        /\ ConcRoom(op, p, m)
        /\ inflight' = [inflight EXCEPT ![i] = Enter(NewReq(op, hdr, p, m, s))]
        /\ UNCHANGED <<db, last, before, limits>>

\* prevMentorData was read before this write of the same mentor's array
MarkStale(r, d, d2) ==
    IF /\ r.op = "assignMentor"
       /\ r.pc = "savePrev"
       /\ r.prev \in MentorIds
       /\ d.mentors[r.prev].assignedProjects # d2.mentors[r.prev].assignedProjects
    THEN [r EXCEPT !.stale = TRUE]
    ELSE r

\* one request performs its next store operation
CStep ==
    \E i \in 1..MaxInflight :
        /\ Pending(i)
        /\ LET x == Step(db, inflight[i]) IN
           /\ db' = x.db
           /\ inflight' = [j \in 1..MaxInflight |->
                             IF j = i THEN x.r ELSE MarkStale(inflight[j], db, x.db)]
        /\ UNCHANGED <<last, before, limits>>

\* the response of an answered request is delivered
CEnd ==
    \E i \in 1..MaxInflight :
        /\ inflight[i].pc = "done"
        /\ inflight' = [inflight EXCEPT ![i] = Idle]
        /\ UNCHANGED <<db, last, before, limits>>

ConcNext == CBegin \/ CStep \/ CEnd

ConcSpec == Init /\ [][ConcNext]_vars

\* a request of one of the routes ops arrives with a token of an allowed
\* role, passes the guard and reaches the first await of its handler
BeginOf(ops) ==
    \E op \in ops :
      \E hdr \in {t \in IssuedTokens : t.role \in AllowedRoles(op)},
         p \in ArgsOf(op).p, m \in ArgsOf(op).m, s \in ArgsOf(op).s,
         i \in 1..MaxInflight :
        /\ inflight[i].pc = "idle"
        /\ \A j \in 1..(i - 1) : inflight[j].pc # "idle"
        /\ ConcRoom(op, p, m)
        /\ inflight' = [inflight EXCEPT ![i] = Enter(NewReq(op, hdr, p, m, s))]
        /\ UNCHANGED <<db, last, before, limits>>

\* the admin's decisions served concurrently
DecideBegin == BeginOf({"adminApprove", "adminReject"})

DecideConcNext == DecideBegin \/ CStep \/ CEnd

DecideConcSpec == Init /\ [][DecideConcNext]_vars

\* the progress updates a request body may carry
Updates == {1, 2}

\* one Approved project that both students applied to, assigned to mentor 1
ProgressInitDb ==
    [projects |-> [p \in ProjectIds |-> ProjectDoc("Approved", 1, <<1, 2>>, <<>>)],
     students |-> [s \in StudentIds |->
                     StudentDoc(s, s, BcryptHash(s), SetToSeq(ProjectIds))],
     mentors |-> [m \in MentorIds |->
                     MentorDoc(m, BcryptHash(m),
                               IF m = 1 THEN SetToSeq(ProjectIds) ELSE <<>>)]]

ProgressInit ==
    /\ db = ProgressInitDb
    /\ last = Idle
    /\ before = db
    /\ inflight = [i \in 1..MaxInflight |-> Idle]
    /\ limits = NoLimits

\* PUT /projects/:projectId/progress with a body { studentId, progressUpdate }
RecordProgressWith ==
    \E hdr \in HeadersFor("progress"), p \in ProjectArgs, s \in StudentArgs,
       update \in Updates, now \in Times :
        /\ SubmitRoom(db, p)
        /\ ServeReq([NewReq("progress", hdr, p, None, s) EXCEPT
                        !.update = update, !.now = now])

ViewProgress ==
    \E hdr \in HeadersFor("adminGetProgress"), p \in ProjectArgs :
        ServeReq(NewReq("adminGetProgress", hdr, p, None, None))

ProgressNext == RecordProgressWith \/ ViewProgress \/ Respond

ProgressSpec == ProgressInit /\ [][ProgressNext]_vars

\* the admin's assignments and the mentors' requests on their projects served
\* concurrently
AssignBegin == BeginOf({"assignMentor", "progress", "mentorGetApplications"})

AssignConcNext == AssignBegin \/ CStep \/ CEnd

\* one Pending project that student 1 applied to, no mentor assigned yet
AssignConcInit ==
    /\ db = InitDb([p \in ProjectIds |-> ProjectDoc("Pending", None, <<1>>, <<>>)])
    /\ last = Idle
    /\ before = db
    /\ inflight = [i \in 1..MaxInflight |-> Idle]
    /\ limits = NoLimits

AssignConcSpec == AssignConcInit /\ [][AssignConcNext]_vars


\* ------------------------------------------------------------- accounts, requests in flight
\* The collections of accounts are empty; requests that add and update
\* accounts are served together.
AcctConcInitDb ==
    [projects |-> [p \in ProjectIds |-> ProjectDoc("Pending", None, <<>>, <<>>)],
     students |-> [s \in StudentIds |-> NoStudent],
     mentors |-> [m \in MentorIds |-> NoMentor]]

AcctConcInit ==
    /\ db = AcctConcInitDb
    /\ last = Idle
    /\ before = db
    /\ inflight = [i \in 1..MaxInflight |-> Idle]
    /\ limits = NoLimits

AcctConcOps == {"addStudent", "addMentor", "updateStudent", "updateMentor",
                "studentProfile", "mentorProfile"}

\* the requests in flight that may still insert a document
AddsInFlight(ops) ==
    Cardinality({i \in 1..MaxInflight : inflight[i].op \in ops /\ Pending(i)})

\* there is an id left for the document the request may insert
AcctConcRoom(op) ==
    /\ op = "addStudent" =>
           Cardinality({s \in StudentIds : db.students[s].found})
               + AddsInFlight({"addStudent"}) < NumStudents
    /\ op = "addMentor" =>
           Cardinality({m \in MentorIds : db.mentors[m].found})
               + AddsInFlight({"addMentor"}) < NumMentors

\* a request arrives with a token of the role its route allows and a body,
\* passes the guard and reaches the first await of its handler
ABegin ==
    \E op \in AcctConcOps :
      \E hdr \in {t \in IssuedTokens : t.role \in AllowedRoles(op)},
         email \in EmailArgs,
         rollNo \in IF op = "addStudent" THEN RollNos ELSE {None},
         s \in IF op = "updateStudent" THEN StudentIds ELSE {None},
         m \in IF op = "updateMentor" THEN MentorIds ELSE {None},
         i \in 1..MaxInflight :
        /\ inflight[i].pc = "idle"
        /\ \A j \in 1..(i - 1) : inflight[j].pc # "idle"
        /\ AcctConcRoom(op)
        /\ inflight' = [inflight EXCEPT ![i] =
               Enter([NewReq(op, hdr, None, m, s) EXCEPT
                         !.email = email, !.rollNo = rollNo, !.gen = 1])]
        /\ UNCHANGED <<db, last, before, limits>>

AcctConcNext == ABegin \/ CStep \/ CEnd

AcctConcSpec == AcctConcInit /\ [][AcctConcNext]_vars


\* ------------------------------------------------------------- rate limits
\* rateLimit({ windowMs, max }): the request is counted, and passes unless
\* the caller's count of the window now exceeds max
Hit(count) == count + 1

Passes(count, max) == Hit(count) <= max

\* the login routes that loginLimiter stands before
LoginLimited == {"mentorLoginV3"}

RateOps == {"adminLogin", "studentLogin", "mentorLogin", "mentorLoginV3", "other"}

\* One caller's requests of one window.  A request first meets the limiter
\* of app.use(limiter), then the limiter of its route, if any, then the
\* handler.  The counts are kept up to one past the largest limit.
Arrive(op) ==
    LET global == Passes(limits.hits, GlobalMax)
        login == op \in LoginLimited => Passes(limits.loginHits, LoginMax)
    IN /\ limits.hits <= GlobalMax
       /\ op \in LoginLimited => limits.loginHits <= LoginMax
       /\ op # "other" => limits.handled[op] <= LoginMax
       /\ limits' =
            [hits |-> Hit(limits.hits),
             passed |-> IF global THEN limits.passed + 1 ELSE limits.passed,
             loginHits |-> IF global /\ op \in LoginLimited
                           THEN Hit(limits.loginHits) ELSE limits.loginHits,
             handled |-> IF global /\ login /\ op # "other"
                         THEN [limits.handled EXCEPT ![op] = @ + 1]
                         ELSE limits.handled]
       /\ UNCHANGED <<db, last, before, inflight>>

LoginArrives == \E op \in RateOps \ {"other"} : Arrive(op)

OtherArrives == Arrive("other")

\* the window ends: the counts start again
WindowEnds ==
    /\ limits # NoLimits
    /\ limits' = NoLimits
    /\ UNCHANGED <<db, last, before, inflight>>

RateNext == LoginArrives \/ OtherArrives \/ WindowEnds

RateSpec == AcctInit /\ [][RateNext]_vars


\* ------------------------------------------------------------- properties
\* the exchange just served, under Spec
Answered == last.pc = "done"

Target(op) == IF op \in {"adminApprove", "mentorApprove"} THEN "Approved" ELSE "Rejected"

\* C1: an admin approve (reject) of an existing project succeeds and sets the
\* status to Approved (Rejected) iff the status was Pending; otherwise the
\* handler raises its not-pending error, designated 400, and the status is
\* left as it was.
C1_AdminDecideIffPending ==
    (Answered /\ last.op \in {"adminApprove", "adminReject"} /\ last.ran
        /\ last.p \in ProjectIds) =>
        LET pre == before.projects[last.p].status
            post == db.projects[last.p].status
        IN IF pre = "Pending"
           THEN last.code = 200 /\ post = Target(last.op)
           ELSE /\ last.code # 200
                /\ last.err = 400
                /\ last.msg = NotPendingMsg(Target(last.op))
                /\ post = pre

C1_Witness ==
    /\ Answered /\ last.op = "adminReject" /\ last.ran /\ last.p \in ProjectIds
    /\ before.projects[last.p].status = "Approved"
    /\ last.err = 400
    /\ db.projects[last.p].status = "Approved"

\* C2: whatever request is served, a project's status changes only from
\* Pending and only to Approved or Rejected.
C2_StatusChangesOnlyFromPending ==
    Answered =>
        \A p \in ProjectIds :
            before.projects[p].status # db.projects[p].status =>
                /\ before.projects[p].status = "Pending"
                /\ db.projects[p].status \in {"Approved", "Rejected"}

\* C3: a valid token whose role the route does not allow is answered 403, the
\* handler is not entered and the store is left as it was.
C3_WrongRoleForbidden ==
    (Answered /\ last.hdr.kind = "bearer" /\ JwtVerify(last.hdr, last.now)
        /\ last.hdr.role \notin AllowedRoles(last.op)) =>
        /\ last.code = 403
        /\ ~last.ran
        /\ db = before

C3_Witness ==
    /\ Answered /\ last.op = "adminApprove" /\ last.hdr = Token(1, "mentor")
    /\ last.p \in ProjectIds /\ before.projects[last.p].status = "Pending"
    /\ last.code = 403

C5_ApplyTwoSided ==
    (Answered /\ last.op = "apply" /\ last.ran /\ last.p \in ProjectIds
        /\ before.projects[last.p].status = "Approved"
        /\ FindStudent(before, last.user.userId).found) =>
        LET S == last.user.userId IN
        IF ~Includes(before.projects[last.p].studentsApplied, S)
        THEN /\ last.code = 200
             /\ Includes(db.projects[last.p].studentsApplied, S)
             /\ Includes(db.students[S].appliedProjects, last.p)
        ELSE last.err = 409 /\ db = before

\* C6: in every state, whatever apply requests are in flight together, no
\* student id occurs twice in a project's studentsApplied.
C6_AppliedOnce ==
    \A p \in ProjectIds, s \in StudentIds :
        SeqCount(db.projects[p].studentsApplied, s) <= 1

\* two applies of one student to one project in flight together, one answered
C6_Witness ==
    /\ inflight[1].op = "apply" /\ inflight[2].op = "apply"
    /\ inflight[1].user.userId = inflight[2].user.userId
    /\ inflight[1].p = inflight[2].p /\ inflight[1].p \in ProjectIds
    /\ inflight[1].pc = "findStudent"
    /\ inflight[2].pc = "done"

\* C7: an apply succeeds only on an Approved project; on a Pending, Rejected
\* or Completed one it fails and adds nothing to studentsApplied nor to any
\* student's appliedProjects.
C7_ApplyOnlyApproved ==
    (Answered /\ last.op = "apply" /\ last.p \in ProjectIds) =>
        /\ last.code = 200 => before.projects[last.p].status = "Approved"
        /\ before.projects[last.p].status # "Approved" =>
               /\ last.code # 200
               /\ db.projects[last.p].studentsApplied
                      = before.projects[last.p].studentsApplied
               /\ db.students = before.students

C7_Witness ==
    /\ Answered /\ last.op = "apply" /\ last.ran /\ last.p \in ProjectIds
    /\ before.projects[last.p].status = "Rejected"
    /\ FindStudent(before, last.hdr.userId).found
    /\ last.code # 200
    /\ db = before

\* C8: from any state, assignMentor(p, m1) served to its success and then
\* assignMentor(p, m2), m2 # m1, served to its success leave p.mentor = m2,
\* p in m2.assignedProjects and p not in m1.assignedProjects.
C8_Reassign ==
    \A p \in ProjectIds, m1 \in MentorIds :
      \A m2 \in MentorIds \ {m1} :
        LET admin == Token(AdminId, "admin")
            x1 == Run(db, Enter(NewReq("assignMentor", admin, p, m1, None)))
            x2 == Run(x1.db, Enter(NewReq("assignMentor", admin, p, m2, None)))
        IN (x1.r.code = 200 /\ x2.r.code = 200) =>
               /\ x2.db.projects[p].mentor = m2
               /\ Includes(x2.db.mentors[m2].assignedProjects, p)
               /\ ~Includes(x2.db.mentors[m1].assignedProjects, p)

\* the second of two such requests has been served
C8_Witness ==
    /\ Answered /\ last.op = "assignMentor" /\ last.code = 200
    /\ last.p \in ProjectIds /\ last.m \in MentorIds
    /\ before.projects[last.p].mentor \in MentorIds \ {last.m}
    /\ Includes(before.mentors[before.projects[last.p].mentor].assignedProjects, last.p)
    /\ db.projects[last.p].mentor = last.m
    /\ ~Includes(db.mentors[before.projects[last.p].mentor].assignedProjects, last.p)

\* C9: when no request is being served, a project's mentor reference names
\* a mentor that exists and has the project in its assignedProjects.
C9_MentorReferenceMirrored ==
    last.pc = "idle" =>
        \A p \in ProjectIds :
            db.projects[p].mentor # None =>
                /\ FindMentor(db, db.projects[p].mentor).found
                /\ Includes(FindMentor(db, db.projects[p].mentor).assignedProjects, p)

\* the mentor of the token, as the claim names it
IsMentorOf(d, m, p) == FindMentor(d, m).found /\ d.projects[p].mentor = m

\* C10: recordProgress by mentor m succeeds only if p exists, p is in
\* m.assignedProjects and s exists and is in p.studentsApplied; it is a 401
\* when m is not the mentor of p, a 404 when m is but s has not applied, and
\* a failure leaves p.submissions as they were.
C10_RecordProgressChecks ==
    (Answered /\ last.op \in {"progressV1", "progress"} /\ last.ran) =>
        LET m == last.user.userId
            p == last.p
            s == last.s
        IN /\ last.code = 200 =>
                  /\ p \in ProjectIds
                  /\ Includes(FindMentor(before, m).assignedProjects, p)
                  /\ FindStudent(before, s).found
                  /\ Includes(before.projects[p].studentsApplied, s)
           /\ (p \in ProjectIds /\ ~IsMentorOf(before, m, p)) => last.code = 401
           /\ (p \in ProjectIds /\ IsMentorOf(before, m, p)
                  /\ ~Includes(before.projects[p].studentsApplied, s)) => last.code = 404
           /\ (p \in ProjectIds /\ last.code # 200) =>
                  db.projects[p].submissions = before.projects[p].submissions

\* the same of the handler that looks its mentor up by req.user.userId
C10_RecordProgressChecksV2 ==
    last.op = "progress" => C10_RecordProgressChecks

\* C11 as stated: a successful admin approve (reject) of a Pending project
\* makes one notification call for each entry of the project's
\* studentsApplied, and the same request repeated raises the not-pending
\* error, designated 400, and changes nothing.
C11_NotifyEveryApplicant ==
    (Answered /\ last.op \in {"adminApprove", "adminReject"} /\ last.code = 200) =>
        LET applied == before.projects[last.p].studentsApplied
            again == Run(db, Enter(NewReq(last.op, last.hdr, last.p, None, None)))
        IN /\ before.projects[last.p].status = "Pending"
           /\ Len(last.mails) = Len(applied)
           /\ \A i \in 1..Len(applied) :
                  \E k \in 1..Len(last.mails) :
                      last.mails[k].to = before.students[applied[i]].email
           /\ again.r.err = 400 /\ again.r.code # 200 /\ again.db = db

\* C11, amended: a successful admin approve (reject) of a Pending project
\* makes one notification call for each entry of the project's
\* studentsApplied whose Student record exists, to that student's email, and
\* none else; the same request repeated raises the not-pending error,
\* designated 400, and changes nothing.
C11_NotifyExistingApplicants ==
    (Answered /\ last.op \in {"adminApprove", "adminReject"} /\ last.code = 200) =>
        LET applied == before.projects[last.p].studentsApplied
            existing == {i \in 1..Len(applied) : FindStudent(before, applied[i]).found}
            again == Run(db, Enter(NewReq(last.op, last.hdr, last.p, None, None)))
        IN /\ before.projects[last.p].status = "Pending"
           /\ Len(last.mails) = Cardinality(existing)
           /\ \A i \in existing :
                  \E k \in 1..Len(last.mails) :
                      last.mails[k].to = before.students[applied[i]].email
           /\ again.r.err = 400 /\ again.r.code # 200 /\ again.db = db

\* an approve of a Pending project with two applicants, both notified
C11_Witness ==
    /\ Answered /\ last.op = "adminApprove" /\ last.code = 200
    /\ Len(before.projects[last.p].studentsApplied) = 2
    /\ \A s \in StudentIds : FindStudent(before, s).found
    /\ Len(last.mails) = 2
    /\ last.mails[1].to # last.mails[2].to
    /\ db.projects[last.p].status = "Approved"

\* C13: an error a handler raises with a designated status (400, 401, 404,
\* 409) is answered with that HTTP status; 500 only answers an error raised
\* without one.
C13_DesignatedStatusDelivered ==
    (Answered /\ last.err # 0) => last.code = last.err

\* C18: a delete of an account that exists removes that account and leaves
\* every project (studentsApplied, mentor, submissions) and every other
\* account as they were; a delete of an id that names no account raises the
\* not-found error, designated 404, and leaves the store as it was.
C18_DeleteExactlyOne ==
    /\ (Answered /\ last.op = "deleteStudent" /\ last.ran) =>
          IF FindStudent(before, last.s).found
          THEN /\ last.code = 200
               /\ ~FindStudent(db, last.s).found
               /\ \A s \in StudentIds \ {last.s} : db.students[s] = before.students[s]
               /\ db.mentors = before.mentors
               /\ db.projects = before.projects
          ELSE last.err = 404 /\ last.code # 200 /\ db = before
    /\ (Answered /\ last.op = "deleteMentor" /\ last.ran) =>
          IF FindMentor(before, last.m).found
          THEN /\ last.code = 200
               /\ ~FindMentor(db, last.m).found
               /\ \A m \in MentorIds \ {last.m} : db.mentors[m] = before.mentors[m]
               /\ db.students = before.students
               /\ db.projects = before.projects
          ELSE last.err = 404 /\ last.code # 200 /\ db = before

\* a student that applied to a project and has a submission there is deleted
C18_Witness ==
    /\ Answered /\ last.op = "deleteStudent" /\ last.code = 200
    /\ \E p \in ProjectIds :
          /\ Includes(db.projects[p].studentsApplied, last.s)
          /\ \E i \in 1..Len(db.projects[p].submissions) :
                 db.projects[p].submissions[i].studentId = last.s
          /\ db.projects[p].mentor # None
    /\ ~FindStudent(db, last.s).found

IsPrefix(a, b) == Len(a) <= Len(b) /\ SubSeq(b, 1, Len(a)) = a

\* C19: no request removes, reorders or changes an entry of a project's
\* submissions; a successful recordProgress adds exactly one entry, for its
\* student, after the existing ones, and leaves the project's status, mentor
\* and studentsApplied as they were.
C19_SubmissionsAppendOnly ==
    Answered =>
        \A p \in ProjectIds :
            LET old == before.projects[p].submissions
                new == db.projects[p].submissions
            IN /\ IsPrefix(old, new)
               /\ (last.op \in {"progressV1", "progress"} /\ last.code = 200
                      /\ last.p = p) =>
                      /\ Len(new) = Len(old) + 1
                      /\ new[Len(new)].studentId = last.s
                      /\ db.projects[p].status = before.projects[p].status
                      /\ db.projects[p].mentor = before.projects[p].mentor
                      /\ db.projects[p].studentsApplied
                             = before.projects[p].studentsApplied
               /\ ~(last.op \in {"progressV1", "progress"} /\ last.code = 200
                      /\ last.p = p) => new = old

\* a second entry, of another student, is added after the first
C19_Witness ==
    /\ Answered /\ last.op = "progress" /\ last.code = 200
    /\ Len(before.projects[last.p].submissions) = 1
    /\ before.projects[last.p].submissions[1].studentId # last.s
    /\ Len(db.projects[last.p].submissions) = 2
    /\ db.projects[last.p].submissions[2].studentId = last.s

\* the request of the exchange r as it arrived, sendMail failing or not
Resend(r, fails) ==
    [NewReq(r.op, r.hdr, r.p, r.m, r.s) EXCEPT
        !.now = r.now, !.env = r.env, !.email = r.email, !.rollNo = r.rollNo,
        !.password = r.password, !.gen = r.gen, !.mailFails = fails]

\* C12: when a notification send of a request fails, the request is still
\* answered with the success it gets when the send succeeds, and the store
\* is the one that run leaves.
C12_MailFailureSwallowed ==
    (Answered /\ last.mailFails /\ Len(last.mails) > 0) =>
        LET sent == Run(before, Enter(Resend(last, FALSE))) IN
        /\ last.code \in {200, 201}
        /\ last.err = 0
        /\ last.code = sent.r.code
        /\ last.msg = sent.r.msg
        /\ db = sent.db
        /\ db # before

\* the welcome mail of a new student fails
C12_Witness ==
    /\ Answered /\ last.op = "addStudent" /\ last.mailFails
    /\ Len(last.mails) = 1 /\ ~last.mails[1].ok
    /\ last.code = 201
    /\ \E s \in StudentIds : ~before.students[s].found /\ db.students[s].found

\* an account that the request served created
Created(d0, d1) ==
    \/ \E s \in StudentIds : ~d0.students[s].found /\ d1.students[s].found
    \/ \E m \in MentorIds : ~d0.mentors[m].found /\ d1.mentors[m].found

\* C14: a request that changes a project's status or mentor, or creates a
\* Student or Mentor account, carries a token whose role is admin.
C14_AdminOnly ==
    (Answered /\ (Created(before, db)
                    \/ \E p \in ProjectIds :
                          \/ db.projects[p].status # before.projects[p].status
                          \/ db.projects[p].mentor # before.projects[p].mentor)) =>
        last.user.role = "admin"

\* C15: no two Student records share an email or a roll number and no two
\* Mentor records share an email.
C15_Unique ==
    /\ \A s \in StudentIds, t \in StudentIds :
          (s # t /\ db.students[s].found /\ db.students[t].found) =>
              /\ db.students[s].email # db.students[t].email
              /\ db.students[s].rollNo # db.students[t].rollNo
    /\ \A m \in MentorIds, n \in MentorIds :
          (m # n /\ db.mentors[m].found /\ db.mentors[n].found) =>
              db.mentors[m].email # db.mentors[n].email

\* an add request looks for the existing account while its roll number or
\* email is stored: it raises the conflict error, designated 409, and the
\* store is left as it is
C15_ConflictStep ==
    \A i \in 1..MaxInflight :
        LET r == inflight[i] IN
        (/\ r.op \in {"addStudent", "addMentor"}
         /\ r.pc = "findExisting"
         /\ inflight'[i] # r
         /\ IsEmail(r.email)
         /\ IF r.op = "addStudent"
            THEN \E s \in StudentIds :
                    /\ db.students[s].found
                    /\ (db.students[s].rollNo = r.rollNo
                          \/ db.students[s].email = Lower(r.email))
            ELSE \E m \in MentorIds :
                    db.mentors[m].found /\ db.mentors[m].email = Lower(r.email))
        => /\ inflight'[i].pc = "done"
           /\ inflight'[i].err = 409
           /\ db' = db

\* C15: in every state of every interleaving of add and update requests the
\* emails and roll numbers of the Student records and the emails of the
\* Mentor records are unique, and an add whose roll number or email is stored
\* when it looks raises Conflict and creates no record.
C15_UniqueAccounts == []C15_Unique /\ [][C15_ConflictStep]_vars

\* two adds with one email passed the look-up together; one has inserted,
\* the other was refused by the index
C15_Witness ==
    /\ inflight[1].op = "addStudent" /\ inflight[2].op = "addStudent"
    /\ Lower(inflight[1].email) = Lower(inflight[2].email)
    /\ inflight[1].code = 201
    /\ inflight[2].pc = "done" /\ inflight[2].err = 500
    /\ Cardinality({s \in StudentIds : db.students[s].found}) = 1

\* C16: a token whose signature verifies, presented at or after its expiry,
\* is answered by the guard: req.user is not set, the handler is not entered
\* and the store is left as it was; a token that a login issues expires one
\* hour after the login.
C16_ExpiredTokenRejected ==
    /\ (Answered /\ last.op \notin LoginOps /\ last.hdr.kind = "bearer"
           /\ last.hdr.valid /\ last.now >= last.hdr.exp) =>
          /\ last.code = 400
          /\ ~last.user.set
          /\ ~last.ran
          /\ db = before
    /\ (Answered /\ last.op \in LoginOps /\ last.code = 200) =>
          /\ last.token.valid
          /\ last.token.exp = last.now + TokenTtl

\* the admin's token is presented exactly one hour after its issue
C16_Witness ==
    /\ Answered /\ last.op = "dashboard"
    /\ last.hdr = JwtSign(AdminId, "admin", 1)
    /\ last.now = 1 + TokenTtl
    /\ last.code = 400 /\ ~last.ran

\* the account that the credentials of a login request match, or None
Matched(d, r) ==
    CASE r.op = "adminLogin" ->
           IF r.email = AdminEmail /\ r.password = AdminPassword THEN AdminId ELSE None
      [] r.op = "studentLogin" ->
           LET S == {s \in StudentIds : /\ d.students[s].found
                                        /\ d.students[s].email = Lower(r.email)
                                        /\ d.students[s].password = BcryptHash(r.password)}
           IN IF S = {} THEN None ELSE CHOOSE s \in S : TRUE
      [] OTHER ->
           LET S == {m \in MentorIds : /\ d.mentors[m].found
                                       /\ d.mentors[m].email = Lower(r.email)
                                       /\ d.mentors[m].password = BcryptHash(r.password)}
           IN IF S = {} THEN None ELSE CHOOSE m \in S : TRUE

RoleOf(op) ==
    CASE op = "adminLogin" -> "admin"
      [] op = "studentLogin" -> "student"
      [] OTHER -> "mentor"

\* a login whose body has an email and a password yields a token iff the
\* credentials match, and then the token of that account and role
C17_TokenIffMatch ==
    (Answered /\ last.op \in LoginOps /\ IsEmail(last.email) /\ NotEmpty(last.password)) =>
        LET id == Matched(before, last) IN
        IF id # None
        THEN /\ last.code = 200
             /\ last.token = JwtSign(id, RoleOf(last.op), last.now)
        ELSE last.code # 200 /\ last.token = NoHeader

\* C17: a login yields a token iff the credentials match, the token of that
\* account with the role of the endpoint; a mismatch is answered 401
\* 'Invalid credentials' with no token.
C17_LoginIffMatch ==
    (Answered /\ last.op \in LoginOps /\ IsEmail(last.email) /\ NotEmpty(last.password)) =>
        LET id == Matched(before, last) IN
        IF id # None
        THEN /\ last.code = 200
             /\ last.token = JwtSign(id, RoleOf(last.op), last.now)
        ELSE /\ last.code = 401
             /\ last.msg = "Invalid credentials"
             /\ last.token = NoHeader

\* C20: when an exception raised without a designated status reaches the
\* error handler, its detail is logged only if the build is not a production
\* build, and the message of the response is not the exception's own.
C20_GenericErrorResponse ==
    (Answered /\ last.err = 500) =>
        /\ last.logged <=> (last.env # "production")
        /\ last.msg # last.errmsg

\* C22: within one window every login route lets at most 5 requests of a
\* caller through to its handler (and all routes together at most 100).
C22_LoginsLimited ==
    /\ \A op \in DOMAIN limits.handled : limits.handled[op] <= LoginMax
    /\ limits.passed <= GlobalMax

\* the limit holds of the one login route that loginLimiter stands before
C22_LimitedLoginRoute ==
    \A op \in LoginLimited : limits.handled[op] <= LoginMax

\* C21: an admin's assign-mentor on an existing project and an existing mentor
\* succeeds whatever the project's status is and leaves every project's
\* status, studentsApplied and submissions as they were; when the project or
\* the mentor is unknown the handler raises its not-found error, designated
\* 404, and the database is left as it was.
C21_AssignMentorFrame ==
    (Answered /\ last.op = "assignMentor" /\ last.ran) =>
        IF FindProject(before, last.p).found /\ FindMentor(before, last.m).found
        THEN /\ last.code = 200
             /\ db.projects[last.p].mentor = last.m
             /\ \A p \in ProjectIds :
                    /\ db.projects[p].status = before.projects[p].status
                    /\ db.projects[p].studentsApplied = before.projects[p].studentsApplied
                    /\ db.projects[p].submissions = before.projects[p].submissions
        ELSE /\ last.err = 404
             /\ db = before

C21_Witness ==
    /\ Answered /\ last.op = "assignMentor" /\ last.ran
    /\ last.p \in ProjectIds /\ FindMentor(before, last.m).found
    /\ before.projects[last.p].status = "Rejected"
    /\ before.projects[last.p].studentsApplied # <<>>
    /\ last.code = 200
    /\ db.projects[last.p].mentor = last.m
    /\ db.projects[last.p].status = "Rejected"

C21_WitnessUnknown ==
    /\ Answered /\ last.op = "assignMentor" /\ last.ran
    /\ last.p \in ProjectIds /\ ~FindMentor(before, last.m).found
    /\ last.err = 404 /\ db = before

\* C23: each project id occurs at most once in a mentor's assignedProjects.
C23_AssignedProjectsIsSet ==
    \A m \in MentorIds : \A p \in ProjectIds :
        db.mentors[m].found => SeqCount(db.mentors[m].assignedProjects, p) <= 1

\* a decision of the admin in flight
Decision(i) == inflight[i].op \in {"adminApprove", "adminReject"}

\* C24: of two admin decisions on one project that are being served together,
\* at most one is answered with success.
C24_AtMostOneDecision ==
    \A i \in 1..MaxInflight : \A j \in 1..MaxInflight :
        (/\ i # j /\ Decision(i) /\ Decision(j)
         /\ inflight[i].p = inflight[j].p
         /\ inflight[i].pc = "done" /\ inflight[j].pc = "done") =>
            ~(inflight[i].code = 200 /\ inflight[j].code = 200)

\* request i is answered in this step
AnsweredNow(i) == inflight[i].pc # "done" /\ inflight'[i].pc = "done"

C25_Step ==
    \A i \in 1..MaxInflight :
        (/\ AnsweredNow(i)
         /\ inflight'[i].op \in {"progress", "mentorGetApplications"}
         /\ inflight'[i].code = 200) =>
            db'.projects[inflight'[i].p].mentor = inflight'[i].user.userId

\* C25: when a mentor's record-progress or view-applications request on a
\* project is answered with success, that mentor is the project's mentor at
\* that moment, however the request is interleaved with assignments.
C25_OnlyCurrentMentor == [][C25_Step]_vars

\* C26: on every self-service request that passed the guard, the id the
\* handler looks its account up by is the subject id of the verified token,
\* never an undefined value.
C26_ActsOnTokenSubject ==
    (Answered /\ last.ran /\ last.op \in SelfServiceOps) =>
        /\ LookupId(last) # Undefined
        /\ LookupId(last) = last.user.userId

\* the verified token of the request was issued to an account that has been
\* deleted since
DeletedSubject(r, d) ==
    \/ r.user.role = "student" /\ r.user.userId \in StudentIds
           /\ ~d.students[r.user.userId].found
    \/ r.user.role = "mentor" /\ r.user.userId \in MentorIds
           /\ ~d.mentors[r.user.userId].found

\* C28: a request that bears the unexpired token of a deleted student or
\* mentor changes nothing in the database.
C28_DeletedAccountPowerless ==
    (Answered /\ last.ran /\ JwtVerify(last.hdr, last.now)
        /\ DeletedSubject(last, before)) => db = before

\* C29: an approve, reject or assign-mentor request that is answered with an
\* error has sent no notification.
C29_NoMailOnError ==
    \A i \in 1..MaxInflight :
        (/\ inflight[i].op \in {"adminApprove", "adminReject", "assignMentor"}
         /\ inflight[i].pc = "done"
         /\ inflight[i].code # 200) => inflight[i].mails = <<>>

\* the student the token of r was issued to is on file in d, project r.p
\* exists and the student has not applied to it
CanApply(r, d) ==
    /\ FindProject(d, r.p).found
    /\ FindStudent(d, r.user.userId).found
    /\ ~Includes(FindProject(d, r.p).studentsApplied, r.user.userId)

\* C27: an apply that is answered with an error has modified neither the
\* project's studentsApplied nor the student's appliedProjects, and when the
\* student may apply to the project the same request sent again succeeds.
C27_FailedApplyRepeatable ==
    (Answered /\ last.op = "apply" /\ last.ran /\ last.code # 200) =>
        /\ \A p \in ProjectIds :
               db.projects[p].studentsApplied = before.projects[p].studentsApplied
        /\ \A st \in StudentIds :
               db.students[st].appliedProjects = before.students[st].appliedProjects
        /\ CanApply(last, db) =>
               Run(db, Enter(NewReq("apply", last.hdr, last.p, None, None))).r.code = 200

\* C30: after a successful record-progress, the entry appended to the
\* project's submissions, as the admin's progress view returns it, is for the
\* given student and holds the supplied update with the time of the append
\* in its progressUpdates.
C30_SubmissionHoldsUpdate ==
    (Answered /\ last.op = "progress" /\ last.code = 200) =>
        LET subs == AdminProgressView(db, last.p)
            entry == subs[Len(subs)]
        IN /\ Len(subs) = Len(before.projects[last.p].submissions) + 1
           /\ entry.studentId = last.s
           /\ \E k \in 1..Len(entry.progressUpdates) :
                  /\ entry.progressUpdates[k].comments = last.update
                  /\ entry.progressUpdates[k].date = last.now

=============================================================================
